---- MODULE Spec2Model ----
(***************************************************************************)
(* Log-to-step segmentation of GitHubRunsExtractor                         *)
(* (src/scripts/scrap_formated_runsv2.py).                                 *)
(*                                                                         *)
(* A Python str is a sequence of one-character strings.  The two control   *)
(* characters that cannot be typed are the tokens NL (line feed) and ESC   *)
(* (0x1b).  Line indices are 0-based, as in the source; Line(k) reads the  *)
(* k-th normalized line.                                                   *)
(***************************************************************************)
EXTENDS Integers, Sequences, FiniteSets, TLC

\* parse_log_by_steps, get_step_identifier, get_job_steps_from_yaml
VARIABLES pc, log_content, job_steps, job_name, log_lines, setup_end_idx,
          step_patterns, scan_i, parsed_steps

\* extract_runs_from_single_workflow: the runs of the pass, the position in
\* them, the two caches, the content requests made so far, and the
\* definition in use for the current run
VARIABLES runs, run_i, workflow_cache, workflow_yaml_cache, fetches,
          workflow_yaml

\* generate_failure_contexts: the run file, the run, the positions in its attempts and
\* jobs, the contexts created, the output directory, the position of the
\* serialization loop, and a deserialized copy
VARIABLES run_data, run, attempt_i, job_i, all_failure_contexts,
          output_files, fc_i, deserialized

parseVars == <<pc, log_content, job_steps, job_name, log_lines, setup_end_idx,
               step_patterns, scan_i, parsed_steps>>

extractVars == <<runs, run_i, workflow_cache, workflow_yaml_cache, fetches,
                 workflow_yaml>>

contextVars == <<run_data, run, attempt_i, job_i, all_failure_contexts, output_files,
                 fc_i, deserialized>>

vars == <<parseVars, extractVars, contextVars>>

\* no extraction pass is under way
NoExtraction ==
    /\ runs = <<>>
    /\ run_i = 0
    /\ workflow_cache = <<>>
    /\ workflow_yaml_cache = <<>>
    /\ fetches = <<>>
    /\ workflow_yaml = <<>>

\* no failure context generation is under way
NoContexts ==
    /\ run_data = <<>>
    /\ run = <<>>
    /\ attempt_i = 0
    /\ job_i = 0
    /\ all_failure_contexts = <<>>
    /\ output_files = <<>>
    /\ fc_i = 0
    /\ deserialized = <<>>

\* no parse_log_by_steps call is under way
NoParse ==
    /\ log_content = <<>>
    /\ job_steps = <<>>
    /\ job_name = <<>>
    /\ log_lines = <<>>
    /\ setup_end_idx = 0
    /\ step_patterns = <<>>
    /\ scan_i = 0
    /\ parsed_steps = <<>>

----------------------------------------------------------------------------
(* Characters *)

NL == "NL"

ESC == "ESC"

UpperCase == <<"A", "B", "C", "D", "E", "F", "G", "H", "I", "J", "K", "L", "M",
               "N", "O", "P", "Q", "R", "S", "T", "U", "V", "W", "X", "Y", "Z">>

LowerCase == <<"a", "b", "c", "d", "e", "f", "g", "h", "i", "j", "k", "l", "m",
               "n", "o", "p", "q", "r", "s", "t", "u", "v", "w", "x", "y", "z">>

Digits == {"0", "1", "2", "3", "4", "5", "6", "7", "8", "9"}

Range(s) == {s[k] : k \in 1..Len(s)}

UpperSet == Range(UpperCase)

WordChars == Range(UpperCase) \cup Range(LowerCase) \cup Digits \cup {"_"}

\* \w of the re module on str patterns, restricted to ASCII
IsWord(c) == c \in WordChars

\* case folding applied by re.IGNORECASE
Fold(c) ==
    IF c \in UpperSet
    THEN LowerCase[CHOOSE k \in 1..Len(UpperCase) : UpperCase[k] = c]
    ELSE c

\* str.strip() whitespace
Whitespace == {" ", "\t", NL, "\r"}

----------------------------------------------------------------------------
(* str helpers *)

RECURSIVE FirstIdx(_, _, _)
\* first index k >= j with s[k] = c, Len(s)+1 if there is none
FirstIdx(s, j, c) ==
    IF j > Len(s) \/ s[j] = c THEN j ELSE FirstIdx(s, j + 1, c)

RECURSIVE FirstNotIn(_, _, _)
\* first index k >= j with s[k] \notin S, Len(s)+1 if there is none
FirstNotIn(s, j, S) ==
    IF j > Len(s) \/ s[j] \notin S THEN j ELSE FirstNotIn(s, j + 1, S)

RECURSIVE Split(_)
\* s.split('\n')
Split(s) ==
    LET k == FirstIdx(s, 1, NL)
    IN  IF k > Len(s) THEN <<s>>
        ELSE <<SubSeq(s, 1, k - 1)>> \o Split(SubSeq(s, k + 1, Len(s)))

RECURSIVE Join(_)
\* '\n'.join(ls)
Join(ls) ==
    IF ls = <<>> THEN <<>>
    ELSE IF Len(ls) = 1 THEN ls[1]
    ELSE ls[1] \o <<NL>> \o Join(Tail(ls))

\* pat in line
Contains(line, pat) ==
    \E p \in 0..(Len(line) - Len(pat)) :
        \A k \in 1..Len(pat) : line[p + k] = pat[k]

----------------------------------------------------------------------------
(* Normalizer: the two re.sub calls and the split *)

\* end index of a match of \x1b\[[0-9;]*[mK] starting at i, 0 if none
AnsiMatchEnd(s, i) ==
    IF i + 1 <= Len(s) /\ s[i] = ESC /\ s[i + 1] = "["
    THEN LET j == FirstNotIn(s, i + 2, Digits \cup {";"})
         IN  IF j <= Len(s) /\ s[j] \in {"m", "K"} THEN j ELSE 0
    ELSE 0

RECURSIVE SubAnsiFrom(_, _)
SubAnsiFrom(s, i) ==
    IF i > Len(s) THEN <<>>
    ELSE LET e == AnsiMatchEnd(s, i)
         IN  IF e > 0 THEN SubAnsiFrom(s, e + 1)
             ELSE <<s[i]>> \o SubAnsiFrom(s, i + 1)

\* variant: the expression is ##\[[^\]]*\], an empty marker matches too
MarkerMatchEnd_AllowEmpty(s, i) ==
    IF i + 2 <= Len(s) /\ s[i] = "#" /\ s[i + 1] = "#" /\ s[i + 2] = "["
    THEN LET j == FirstIdx(s, i + 3, "]")
         IN  IF j <= Len(s) THEN j ELSE 0
    ELSE 0

\* end index of a match of ##\[[^\]]+\] starting at i, 0 if none
MarkerMatchEnd(s, i) ==
    IF i + 2 <= Len(s) /\ s[i] = "#" /\ s[i + 1] = "#" /\ s[i + 2] = "["
    THEN LET j == FirstIdx(s, i + 3, "]")
         IN  IF j <= Len(s) /\ j > i + 3 THEN j ELSE 0
    ELSE 0

RECURSIVE SubMarkerFrom(_, _)
SubMarkerFrom(s, i) ==
    IF i > Len(s) THEN <<>>
    ELSE LET e == MarkerMatchEnd(s, i)
         IN  IF e > 0 THEN SubMarkerFrom(s, e + 1)
             ELSE <<s[i]>> \o SubMarkerFrom(s, i + 1)

\* cleaned, as computed by the two substitutions
Cleaned(raw) == SubMarkerFrom(SubAnsiFrom(raw, 1), 1)

Normalize(raw) == Split(Cleaned(raw))

----------------------------------------------------------------------------
(* Step Identifier Deriver: get_step_identifier *)

\* the value None, kept distinct from every str
None == <<"None">>

RunTag == <<"R", "u", "n", " ">>

UnknownStep == <<"R", "u", "n", " ", "U", "n", "k", "n", "o", "w", "n", " ", "S", "t", "e", "p">>

\* line boundaries of str.splitlines() that occur in the modelled alphabet
LineBreaks == {NL, "\r"}

\* raw.splitlines()[0], for a non-empty raw
FirstLine(raw) ==
    SubSeq(raw, 1, FirstNotIn(raw, 1, Range(raw) \ LineBreaks) - 1)

\* s.lstrip(chars)
LStrip(s, chars) == SubSeq(s, FirstNotIn(s, 1, chars), Len(s))

\* s.rstrip() on whitespace
RStrip(s) ==
    LET keep == {k \in 1..Len(s) : s[k] \notin Whitespace}
    IN  IF keep = {} THEN <<>>
        ELSE SubSeq(s, 1, CHOOSE k \in keep : \A m \in keep : m <= k)

\* s.strip()
Strip(s) == RStrip(LStrip(s, Whitespace))

Has(step, key) == key \in DOMAIN step

\* variant: the uses reference is tried before the run script
GetStepIdentifier_UsesFirst(step) ==
    IF DOMAIN step = {} THEN UnknownStep
    ELSE IF Has(step, "uses") THEN RunTag \o step.uses
    ELSE IF Has(step, "run")
         THEN IF step.run # <<>>
              THEN RunTag \o Strip(LStrip(FirstLine(step.run), {"|"}))
              ELSE UnknownStep
    ELSE IF Has(step, "name") THEN RunTag \o step.name
    ELSE UnknownStep

GetStepIdentifier(step) ==
    IF DOMAIN step = {} THEN UnknownStep
    ELSE IF Has(step, "run")
         THEN IF step.run # <<>>
              THEN RunTag \o Strip(LStrip(FirstLine(step.run), {"|"}))
              ELSE UnknownStep
    ELSE IF Has(step, "uses") THEN RunTag \o step.uses
    ELSE IF Has(step, "name") THEN RunTag \o step.name
    ELSE UnknownStep

----------------------------------------------------------------------------
(* Step Locator matching: re.search(rf'\b{re.escape(pattern)}\b', line, re.IGNORECASE) *)

\* characters re.escape prefixes with a backslash
ReSpecial == {"(", ")", "[", "]", "{", "}", "?", "*", "+", "-", "|", "^", "$",
              "\\", ".", "&", "~", "#", " ", "\t", NL, "\r"}

RECURSIVE ReEscapeFrom(_, _)
\* re.escape of the characters of s from position i on
ReEscapeFrom(s, i) ==
    IF i > Len(s) THEN <<>>
    ELSE (IF s[i] \in ReSpecial THEN <<"\\", s[i]>> ELSE <<s[i]>>)
         \o ReEscapeFrom(s, i + 1)

ReEscape(s) == ReEscapeFrom(s, 1)

RECURSIVE ReLiteralsFrom(_, _)
\* the characters an escaped expression matches, one per atom: a backslash
\* makes the next character literal, every other character stands for itself
ReLiteralsFrom(pat, i) ==
    IF i > Len(pat) THEN <<>>
    ELSE IF pat[i] = "\\" /\ i + 1 <= Len(pat)
         THEN <<pat[i + 1]>> \o ReLiteralsFrom(pat, i + 2)
         ELSE <<pat[i]>> \o ReLiteralsFrom(pat, i + 1)

ReLiterals(pat) == ReLiteralsFrom(pat, 1)

\* \b between line[p] and line[p+1] (1-based; p = 0 is the start of the line)
WordBoundary(line, p) ==
    LET before == p >= 1 /\ IsWord(line[p])
        after  == p + 1 <= Len(line) /\ IsWord(line[p + 1])
    IN  before # after

MatchesAt(lits, line, p) ==
    /\ WordBoundary(line, p)
    /\ \A k \in 1..Len(lits) : Fold(line[p + k]) = Fold(lits[k])
    /\ WordBoundary(line, p + Len(lits))

ReSearch(pattern, line) ==
    \E esc \in {ReEscape(pattern)} : \E lits \in {ReLiterals(esc)} :
        \E p \in 0..(Len(line) - Len(lits)) : MatchesAt(lits, line, p)

----------------------------------------------------------------------------
(* Step Record Builder *)

RECURSIVE ItemLines(_)
\* the "  key: value" lines of a with/env mapping, in insertion order
ItemLines(items) ==
    IF items = <<>> THEN <<>>
    ELSE <<<<" ", " ">> \o items[1][1] \o <<":", " ">> \o items[1][2]>>
         \o ItemLines(Tail(items))

GetStepWorkflowCode(step) ==
    Join((IF Has(step, "run") THEN <<<<"R", "u", "n", ":", NL>> \o step.run>> ELSE <<>>)
      \o (IF Has(step, "uses") THEN <<<<"U", "s", "e", "s", ":", " ">> \o step.uses>> ELSE <<>>)
      \o (IF Has(step, "name") THEN <<<<"N", "a", "m", "e", ":", " ">> \o step.name>> ELSE <<>>)
      \o (IF Has(step, "with") THEN <<<<"W", "i", "t", "h", ":">>>> \o ItemLines(step.with) ELSE <<>>)
      \o (IF Has(step, "env") THEN <<<<"E", "n", "v", ":">>>> \o ItemLines(step.env) ELSE <<>>))

\* step.get(key) and step.get(key, default)
Get(step, key, default) == IF Has(step, key) THEN step[key] ELSE default

SetupName == <<"S", "e", "t", " ", "u", "p", " ", "j", "o", "b">>

NotFoundNote == <<"S", "t", "e", "p", " ", "n", "o", "t", " ", "f", "o", "u", "n", "d", " ", "i", "n", " ", "l", "o", "g">>

UnnamedStep == <<"U", "n", "n", "a", "m", "e", "d", " ", "S", "t", "e", "p">>

----------------------------------------------------------------------------
(* Setup-Segment Detector *)

SetupEndPattern(job) == <<"C", "o", "m", "p", "l", "e", "t", "e", " ", "j", "o", "b", " ", "n", "a", "m", "e", ":", " ">> \o job

\* 1-based positions of the lines that contain the sentinel
SentinelLines(lines, job) ==
    {k \in 1..Len(lines) : Contains(lines[k], SetupEndPattern(job))}

\* setup_end_idx after the detector loop: the index of the line the loop
\* broke at, or its initial value 0 when the loop ran to the end
SetupEndIdx(lines, job) ==
    LET hits == SentinelLines(lines, job)
    IN  IF hits = {} THEN 0
        ELSE (CHOOSE k \in hits : \A m \in hits : k <= m) - 1

\* variant: the break never cuts the setup log short
SetupLog_AllLines(lines, job) == lines

\* setup_log after the detector loop: every line appended before the break
SetupLog(lines, job) ==
    LET hits == SentinelLines(lines, job)
    IN  IF hits = {} THEN lines
        ELSE SubSeq(lines, 1, (CHOOSE k \in hits : \A m \in hits : k <= m) - 1)

\* variant: the setup record starts where it ends
SetupStep_StartAtEnd(lines, job) ==
    [name |-> SetupName,
     type |-> "setup",
     log_content |-> Join(SetupLog(lines, job)),
     start_line |-> SetupEndIdx(lines, job),
     end_line |-> SetupEndIdx(lines, job)]

SetupStep(lines, job) ==
    [name |-> SetupName,
     type |-> "setup",
     log_content |-> Join(SetupLog(lines, job)),
     start_line |-> 0,
     end_line |-> SetupEndIdx(lines, job)]

\* the step_patterns list built before the scan
StepPatterns(steps) ==
    [k \in 1..Len(steps) |->
        [step |-> steps[k],
         pattern |-> GetStepIdentifier(steps[k]),
         found |-> FALSE,
         start_idx |-> -1,
         end_idx |-> -1]]

----------------------------------------------------------------------------
(* Step Locator, Range Assigner *)

\* the k-th normalized line, 0-based
Line(k) == log_lines[k + 1]

\* variant: remaining_lines = log_lines[setup_end_idx:]
ScanStart_AtSetupEnd(setup_end) == setup_end

\* variant: remaining_lines = log_lines
ScanStart_FromTop(setup_end) == 0

\* variant: remaining_lines = log_lines[setup_end_idx + 2:]
ScanStart_SkipOne(setup_end) == setup_end + 2

\* index of the first of remaining_lines = log_lines[setup_end_idx + 1:]
ScanStart(setup_end) == setup_end + 1

\* variant: the inner loop does not skip the patterns already found
Candidates_Refound(patterns, line) ==
    {k \in 1..Len(patterns) : ReSearch(patterns[k].pattern, line)}

\* positions of the patterns the inner loop would accept for this line
Candidates(patterns, line) ==
    {k \in 1..Len(patterns) :
        ~patterns[k].found /\ ReSearch(patterns[k].pattern, line)}

\* variant: the inner loop has no break, every matching pattern is marked
ScanStep_NoBreak(patterns, line, idx) ==
    [k \in 1..Len(patterns) |->
        IF k \in Candidates(patterns, line)
        THEN [patterns[k] EXCEPT !.found = TRUE, !.start_idx = idx]
        ELSE patterns[k]]

\* variant: the enumeration is one behind, the previous index is recorded
ScanStep_PreviousLine(patterns, line, idx) ==
    LET c == Candidates(patterns, line)
    IN  IF c = {} THEN patterns
        ELSE LET k == CHOOSE k \in c : \A m \in c : k <= m
             IN  [patterns EXCEPT ![k].found = TRUE, ![k].start_idx = idx - 1]

\* one iteration of the outer scan loop: the first unfound pattern that
\* matches is marked and the inner loop breaks
ScanStep(patterns, line, idx) ==
    LET c == Candidates(patterns, line)
    IN  IF c = {} THEN patterns
        ELSE LET k == CHOOSE k \in c : \A m \in c : k <= m
             IN  [patterns EXCEPT ![k].found = TRUE, ![k].start_idx = idx]

\* variant: found_patterns is left in list order
FoundOrder_ListOrder(patterns) ==
    LET f == {k \in 1..Len(patterns) : patterns[k].found}
    IN  [j \in 1..Cardinality(f) |->
            CHOOSE k \in f : Cardinality({m \in f : m < k}) = j - 1]

\* found_patterns after list.sort(key=start_idx): positions into
\* step_patterns, ascending by start_idx, ties in list order (stable sort)
FoundOrder(patterns) ==
    LET f == {k \in 1..Len(patterns) : patterns[k].found}
        before(m, k) == \/ patterns[m].start_idx < patterns[k].start_idx
                        \/ (patterns[m].start_idx = patterns[k].start_idx /\ m < k)
    IN  [j \in 1..Cardinality(f) |->
            CHOOSE k \in f : Cardinality({m \in f : before(m, k)}) = j - 1]

\* variant: a step ends on the line the next one starts on
EndIdx_NextStart(patterns, order, j, nlines) ==
    IF j + 1 <= Len(order)
    THEN patterns[order[j + 1]].start_idx
    ELSE nlines - 1

\* variant: the last step stops one line short of the end of the log
EndIdx_DropLastLine(patterns, order, j, nlines) ==
    IF j + 1 <= Len(order)
    THEN patterns[order[j + 1]].start_idx - 1
    ELSE nlines - 2

\* end_idx of the j-th found pattern
EndIdx(patterns, order, j, nlines) ==
    IF j + 1 <= Len(order)
    THEN patterns[order[j + 1]].start_idx - 1
    ELSE nlines - 1

\* log_lines[start:end + 1]
Slice(lines, start, end) == SubSeq(lines, start + 1, end + 1)

FoundStepData(p, end, lines) ==
    [name |-> Get(p.step, "name", RunTag \o Get(p.step, "uses", <<>>)),
     type |-> "action",
     uses |-> Get(p.step, "uses", None),
     run |-> Get(p.step, "run", None),
     with |-> Get(p.step, "with", <<>>),
     env |-> Get(p.step, "env", <<>>),
     log_content |-> Join(Slice(lines, p.start_idx, end)),
     start_line |-> p.start_idx,
     end_line |-> end,
     pattern_matched |-> p.pattern,
     workflow_code |-> GetStepWorkflowCode(p.step)]

\* variant: the record of a step not found carries no note
UnfoundStepData_NoNote(p) ==
    [name |-> Get(p.step, "name", UnnamedStep),
     type |-> "action",
     uses |-> Get(p.step, "uses", None),
     run |-> Get(p.step, "run", None),
     with |-> Get(p.step, "with", <<>>),
     env |-> Get(p.step, "env", <<>>),
     log_content |-> <<>>,
     start_line |-> -1,
     end_line |-> -1,
     pattern_matched |-> p.pattern,
     workflow_code |-> GetStepWorkflowCode(p.step)]

UnfoundStepData(p) ==
    [name |-> Get(p.step, "name", UnnamedStep),
     type |-> "action",
     uses |-> Get(p.step, "uses", None),
     run |-> Get(p.step, "run", None),
     with |-> Get(p.step, "with", <<>>),
     env |-> Get(p.step, "env", <<>>),
     log_content |-> <<>>,
     start_line |-> -1,
     end_line |-> -1,
     pattern_matched |-> p.pattern,
     note |-> NotFoundNote,
     workflow_code |-> GetStepWorkflowCode(p.step)]

\* variant: the final loop stops after the first step not found
UnfoundRecords_FirstOnly(patterns) ==
    LET u == {k \in 1..Len(patterns) : ~patterns[k].found}
    IN  IF u = {} THEN <<>>
        ELSE <<UnfoundStepData(patterns[CHOOSE k \in u : \A m \in u : k <= m])>>

RECURSIVE UnfoundRecords(_)
\* the records appended by the final loop, in step_patterns order
UnfoundRecords(patterns) ==
    IF patterns = <<>> THEN <<>>
    ELSE (IF ~Head(patterns).found THEN <<UnfoundStepData(Head(patterns))>> ELSE <<>>)
         \o UnfoundRecords(Tail(patterns))

----------------------------------------------------------------------------
(* Inputs *)

MaxLines == 3

MaxSteps == 2

SeqsUpTo(S, n) == UNION {[1..m -> S] : m \in 0..n}

JobB == <<"b">>

\* raw log lines: the sentinel of job b, a step header in another case and
\* followed by a hyphen, a line that holds an identifier without a boundary
\* before it, an empty line, and a header wrapped in a colour sequence and a
\* group marker
LinePalette ==
    {<<"C", "o", "m", "p", "l", "e", "t", "e", " ", "j", "o", "b", " ", "n", "a", "m", "e", ":", " ", "b">>,
     <<"r", "u", "n", " ", "A", "-", "b">>,
     <<"x", "R", "u", "n", " ", "a">>,
     <<>>,
     <<ESC, "[", "1", "m", "#", "#", "[", "g", "]", "R", "u", "n", " ", "x">>}

\* step specifications: a run block, a uses reference with the same
\* identifier, a name with parameters, and the empty mapping
StepPalette ==
    {[run |-> <<"|", " ", "a", " ", NL, "z">>],
     [uses |-> <<"a">>, name |-> <<"n">>],
     [name |-> <<"x">>, with |-> << << <<"k">>, <<"v">> >> >>],
     [f \in {} |-> f]}

RawLogs == {Join(ls) : ls \in SeqsUpTo(LinePalette, MaxLines)}

StepLists == SeqsUpTo(StepPalette, MaxSteps)

\* Scenario A of the specification
ScenarioALog == <<"C", "o", "m", "p", "l", "e", "t", "e", " ", "j", "o", "b", " ", "n", "a", "m", "e", ":", " ", "b", "u", "i", "l", "d", NL, "R", "u", "n", " ", "e", "c", "h", "o", " ", "h", "i", NL, "h", "e", "l", "l", "o", NL>>

ScenarioASteps == <<[run |-> <<"e", "c", "h", "o", " ", "h", "i">>]>>

ScenarioAJob == <<"b", "u", "i", "l", "d">>

\* a log of the usual shape: a runner line, the sentinel, then each step's
\* header followed by its output; the steps are listed in the other order
SampleLog == <<"i", "n", "i", "t", NL, "C", "o", "m", "p", "l", "e", "t", "e", " ", "j", "o", "b", " ", "n", "a", "m", "e", ":", " ", "b", NL, "#", "#", "[", "g", "r", "o", "u", "p", "]", "R", "u", "n", " ", "a", NL, "o", "u", "t", NL, ESC, "[", "3", "6", ";", "1", "m", "R", "u", "n", " ", "x", ESC, "[", "0", "m", NL, "o", "u", "t", NL>>

SampleSteps == <<[name |-> <<"x">>], [run |-> <<"a">>]>>

\* Scenario C of the specification: identifiers 'Run test' and
\* 'Run test-unit', a log whose only header is 'Run test-unit'
ScenarioCLog == <<"C", "o", "m", "p", "l", "e", "t", "e", " ", "j", "o", "b", " ", "n", "a", "m", "e", ":", " ", "b", "u", "i", "l", "d", NL, "R", "u", "n", " ", "t", "e", "s", "t", "-", "u", "n", "i", "t", NL>>

ScenarioCSteps == <<[run |-> <<"t", "e", "s", "t">>], [run |-> <<"t", "e", "s", "t", "-", "u", "n", "i", "t">>]>>

\* a run step whose identifier ends in a parenthesis, and a log that echoes
\* the header verbatim
ParenLog == <<"C", "o", "m", "p", "l", "e", "t", "e", " ", "j", "o", "b", " ", "n", "a", "m", "e", ":", " ", "b", NL, "R", "u", "n", " ", "f", "(", ")", NL, "o", "u", "t">>

ParenSteps == <<[run |-> <<"f", "(", ")">>]>>

Inputs ==
    (RawLogs \X StepLists \X {JobB})
    \cup {<<ScenarioALog, ScenarioASteps, ScenarioAJob>>,
          <<SampleLog, SampleSteps, JobB>>,
          <<ScenarioCLog, ScenarioCSteps, ScenarioAJob>>,
          <<ParenLog, ParenSteps, JobB>>}

----------------------------------------------------------------------------
(* parse_log_by_steps *)

Init ==
    /\ pc = "idle"
    /\ log_content = <<>>
    /\ job_steps = <<>>
    /\ job_name = <<>>
    /\ log_lines = <<>>
    /\ setup_end_idx = 0
    /\ step_patterns = <<>>
    /\ scan_i = 0
    /\ parsed_steps = <<>>
    /\ NoExtraction
    /\ NoContexts

\* entry up to the start of the scan loop: normalizer, setup detector,
\* setup record, pattern list
Enter(log, steps, job) ==
    /\ log_content' = log
    /\ job_steps' = steps
    /\ job_name' = job
    /\ log_lines' = Normalize(log)
    /\ setup_end_idx' = SetupEndIdx(log_lines', job)
    /\ parsed_steps' = <<SetupStep(log_lines', job)>>
    /\ step_patterns' = StepPatterns(steps)
    /\ scan_i' = ScanStart(setup_end_idx')
    /\ pc' = "scan"
    /\ UNCHANGED <<extractVars, contextVars>>

\* variant: the loop body does not move on to the next line
ScanLine_NoAdvance ==
    /\ pc = "scan"
    /\ scan_i <= Len(log_lines) - 1
    /\ step_patterns' = ScanStep(step_patterns, Line(scan_i), scan_i)
    /\ UNCHANGED <<pc, log_content, job_steps, job_name, log_lines,
                   setup_end_idx, parsed_steps, scan_i>>
    /\ UNCHANGED <<extractVars, contextVars>>

\* one iteration of the loop over remaining_lines
ScanLine ==
    /\ pc = "scan"
    /\ scan_i <= Len(log_lines) - 1
    /\ step_patterns' = ScanStep(step_patterns, Line(scan_i), scan_i)
    /\ scan_i' = scan_i + 1
    /\ UNCHANGED <<pc, log_content, job_steps, job_name, log_lines,
                   setup_end_idx, parsed_steps>>
    /\ UNCHANGED <<extractVars, contextVars>>

\* the range loop over the sorted found patterns: end_idx is stored in the
\* pattern and the step record is appended
AssignRanges ==
    /\ pc = "scan"
    /\ scan_i > Len(log_lines) - 1
    /\ LET order == FoundOrder(step_patterns)
           end(j) == EndIdx(step_patterns, order, j, Len(log_lines))
       IN  /\ step_patterns' =
                [k \in 1..Len(step_patterns) |->
                    IF \E j \in 1..Len(order) : order[j] = k
                    THEN [step_patterns[k] EXCEPT
                            !.end_idx = end(CHOOSE j \in 1..Len(order) : order[j] = k)]
                    ELSE step_patterns[k]]
           /\ parsed_steps' = parsed_steps \o
                [j \in 1..Len(order) |->
                    FoundStepData(step_patterns[order[j]], end(j), log_lines)]
    /\ pc' = "unfound"
    /\ UNCHANGED <<log_content, job_steps, job_name, log_lines,
                   setup_end_idx, scan_i>>
    /\ UNCHANGED <<extractVars, contextVars>>

\* the loop that appends the records of the steps not found
AppendUnfound ==
    /\ pc = "unfound"
    /\ parsed_steps' = parsed_steps \o UnfoundRecords(step_patterns)
    /\ pc' = "done"
    /\ UNCHANGED <<log_content, job_steps, job_name, log_lines,
                   setup_end_idx, step_patterns, scan_i>>
    /\ UNCHANGED <<extractVars, contextVars>>

\* return parsed_steps: the locals of the call are gone
Return ==
    /\ pc = "done"
    /\ pc' = "idle"
    /\ log_content' = <<>>
    /\ job_steps' = <<>>
    /\ job_name' = <<>>
    /\ log_lines' = <<>>
    /\ setup_end_idx' = 0
    /\ step_patterns' = <<>>
    /\ scan_i' = 0
    /\ parsed_steps' = <<>>
    /\ UNCHANGED <<extractVars, contextVars>>

\* a caller invokes parse_log_by_steps(log_content, job_steps, job_name)
Call ==
    /\ pc = "idle"
    /\ \E inp \in Inputs : Enter(inp[1], inp[2], inp[3])

Next ==
    \/ Call
    \/ ScanLine
    \/ AssignRanges
    \/ AppendUnfound
    \/ Return

Spec == Init /\ [][Next]_vars

----------------------------------------------------------------------------
(* Properties of the returned list *)

Done == pc = "done"

SetupRecord == parsed_steps[1]

\* positions of the step records, and of the resolved ones among them
StepRecords == 2..Len(parsed_steps)

Resolved == {k \in StepRecords : parsed_steps[k].start_line # -1}

Unresolved == {k \in StepRecords : parsed_steps[k].start_line = -1}

TotalLines == Len(log_lines)

\* record r was built from step specification st
BuiltFrom(r, st) ==
    /\ r.type = "action"
    /\ r.uses = Get(st, "uses", None)
    /\ r.run = Get(st, "run", None)
    /\ r.with = Get(st, "with", <<>>)
    /\ r.env = Get(st, "env", <<>>)
    /\ r.pattern_matched = GetStepIdentifier(st)

\* C1: for a step list of length N the call returns N+1 records, the setup
\* record and exactly one record per input step: the step records are the
\* input steps in some order, none dropped and none duplicated.
C1_OneRecordPerStep ==
    Done =>
        /\ Len(parsed_steps) = Len(job_steps) + 1
        /\ SetupRecord.type = "setup"
        /\ \E f \in Permutations(1..Len(job_steps)) :
              \A k \in 1..Len(job_steps) :
                  BuiltFrom(parsed_steps[k + 1], job_steps[f[k]])

C1_Witness ==
    /\ Done
    /\ Len(job_steps) = 2
    /\ job_steps[1] # job_steps[2]
    /\ Resolved # {}
    /\ Unresolved # {}

\* C2: among the resolved step records taken in ascending start_line order,
\* each end_line is the next start_line minus 1, and the last end_line is
\* the number of normalized lines minus 1.
C2_ContiguousRanges ==
    Done =>
        \A k \in Resolved :
            LET later == {m \in Resolved :
                            parsed_steps[m].start_line > parsed_steps[k].start_line}
            IN  IF later = {}
                THEN parsed_steps[k].end_line = TotalLines - 1
                ELSE \E m \in later :
                        /\ \A n \in later :
                              parsed_steps[m].start_line <= parsed_steps[n].start_line
                        /\ parsed_steps[k].end_line = parsed_steps[m].start_line - 1

C2_Witness ==
    /\ Done
    /\ Cardinality(Resolved) >= 2
    /\ \E k \in Resolved : parsed_steps[k].end_line > parsed_steps[k].start_line

\* C5: a step the scan did not locate gets start_line = end_line = -1, empty
\* log_content and the note 'Step not found in log'; a resolved step record
\* has no note and no negative start_line or end_line.
C5_UnresolvedRecords ==
    Done =>
        /\ Cardinality(Unresolved) =
              Cardinality({k \in 1..Len(step_patterns) : ~step_patterns[k].found})
        /\ \A k \in 1..Len(step_patterns) :
              ~step_patterns[k].found =>
                  \E m \in Unresolved :
                      BuiltFrom(parsed_steps[m], step_patterns[k].step)
        /\ \A m \in Unresolved :
              /\ parsed_steps[m].end_line = -1
              /\ parsed_steps[m].log_content = <<>>
              /\ "note" \in DOMAIN parsed_steps[m]
              /\ parsed_steps[m].note = NotFoundNote
        /\ \A m \in Resolved :
              /\ "note" \notin DOMAIN parsed_steps[m]
              /\ parsed_steps[m].start_line >= 0
              /\ parsed_steps[m].end_line >= 0

C5_Witness ==
    /\ Done
    /\ Unresolved # {}
    /\ Resolved # {}
    /\ \E k \in 1..TotalLines, m \in Unresolved :
          Contains(log_lines[k], parsed_steps[m].pattern_matched)

\* C6: the returned list holds exactly one record of type 'setup'; it is the
\* first element and has start_line = 0; every other record has type 'action'.
C6_SetupFirst ==
    pc \in {"scan", "unfound", "done"} =>
        /\ Len(parsed_steps) >= 1
        /\ SetupRecord.type = "setup"
        /\ SetupRecord.start_line = 0
        /\ \A k \in StepRecords : parsed_steps[k].type = "action"

C6_Witness ==
    /\ Done
    /\ Len(parsed_steps) >= 3
    /\ SetupRecord.end_line > 0

\* positions of the records whose [start_line, end_line] holds line idx
Covering(idx) ==
    {k \in 1..Len(parsed_steps) :
        parsed_steps[k].start_line <= idx /\ idx <= parsed_steps[k].end_line}

\* 0-based indices of the normalized lines that contain the sentinel
SentinelHits ==
    {k \in 0..(TotalLines - 1) : Contains(Line(k), SetupEndPattern(job_name))}

FirstHit == CHOOSE k \in SentinelHits : \A m \in SentinelHits : k <= m

FirstResolvedStart ==
    CHOOSE n \in {parsed_steps[k].start_line : k \in Resolved} :
        \A k \in Resolved : n <= parsed_steps[k].start_line

\* C3 (as stated): when a step is resolved, every line index lies in the
\* range of exactly one emitted record.
C3_Partition ==
    (Done /\ Resolved # {}) =>
        \A idx \in 0..(TotalLines - 1) : Cardinality(Covering(idx)) = 1

\* C3 (amended): no line index lies in the range of two emitted records;
\* every index up to the setup record's end_line and every index from the
\* first resolved start_line on lies in exactly one; the indices in between
\* may lie in none.
C3_DisjointRanges ==
    Done =>
        \A idx \in 0..(TotalLines - 1) :
            /\ Cardinality(Covering(idx)) <= 1
            /\ idx <= SetupRecord.end_line => Covering(idx) = {1}
            /\ (Resolved # {} /\ idx >= FirstResolvedStart) =>
                  \E k \in Resolved : Covering(idx) = {k}

C3_Witness ==
    /\ Done
    /\ Resolved # {}
    /\ \E idx \in 0..(TotalLines - 1) :
          /\ Covering(idx) = {}
          /\ idx > SetupRecord.end_line
          /\ idx < FirstResolvedStart

\* C4: without a sentinel line the setup record holds the entire log and
\* every step is reported unresolved.
C4_NoSentinelAllUnresolved ==
    (Done /\ SentinelHits = {}) =>
        /\ SetupRecord.log_content = Join(log_lines)
        /\ \A k \in StepRecords :
              parsed_steps[k].start_line = -1 /\ parsed_steps[k].end_line = -1

\* C7: every record whose start_line is not -1, the setup record included,
\* has log_content equal to the lines start_line..end_line joined by newline.
C7_ContentIsRange ==
    Done =>
        \A k \in 1..Len(parsed_steps) :
            parsed_steps[k].start_line # -1 =>
                parsed_steps[k].log_content =
                    Join(Slice(log_lines, parsed_steps[k].start_line,
                               parsed_steps[k].end_line))

\* C8: the setup record's log_content is the lines strictly before the first
\* line containing the sentinel (all lines if there is none); the scan starts
\* after the sentinel line and no step gets a start_line at or before it.
C8_SetupBeforeSentinel ==
    /\ pc \in {"scan", "unfound", "done"} =>
          SetupRecord.log_content =
              Join(IF SentinelHits = {} THEN log_lines
                   ELSE SubSeq(log_lines, 1, FirstHit))
    /\ (pc = "scan" /\ SentinelHits # {}) => scan_i > FirstHit
    /\ (Done /\ SentinelHits # {}) =>
          \A k \in Resolved : parsed_steps[k].start_line > FirstHit

C8_Witness ==
    /\ Done
    /\ SentinelHits # {}
    /\ \E k \in Resolved, n \in 0..(TotalLines - 1) :
          /\ n < FirstHit
          /\ ReSearch(parsed_steps[k].pattern_matched, Line(n))

IsScenarioA ==
    /\ log_content = ScenarioALog
    /\ job_steps = ScenarioASteps
    /\ job_name = ScenarioAJob

ScenarioAContent == <<"R", "u", "n", " ", "e", "c", "h", "o", " ", "h", "i", NL, "h", "e", "l", "l", "o", NL>>

\* C9 (as stated): in Scenario A the setup record is [0, 0] and the step
\* record has start_line 1, end_line 2 and log_content 'Run echo hi\nhello\n'.
C9_ScenarioA ==
    (Done /\ IsScenarioA) =>
        /\ Len(parsed_steps) = 2
        /\ SetupRecord.start_line = 0
        /\ SetupRecord.end_line = 0
        /\ parsed_steps[2].start_line = 1
        /\ parsed_steps[2].end_line = 2
        /\ parsed_steps[2].log_content = ScenarioAContent

\* C9 (amended): in Scenario A the setup record is [0, 0] and the step record
\* has start_line 1, end_line 3 (the newline-terminated log splits into four
\* lines, the last one empty) and log_content 'Run echo hi\nhello\n'.
C9_ScenarioAEndsAtLastLine ==
    (Done /\ IsScenarioA) =>
        /\ Len(parsed_steps) = 2
        /\ TotalLines = 4
        /\ SetupRecord.start_line = 0
        /\ SetupRecord.end_line = 0
        /\ parsed_steps[2].start_line = 1
        /\ parsed_steps[2].end_line = 3
        /\ parsed_steps[2].log_content = ScenarioAContent

C9_Witness == Done /\ IsScenarioA /\ Resolved = {2}

\* C10 (as stated): for an empty step list the only record is the setup
\* record and it covers the whole log, content and range.
C10_EmptyStepsWholeLog ==
    (Done /\ job_steps = <<>>) =>
        /\ Len(parsed_steps) = 1
        /\ SetupRecord.type = "setup"
        /\ SetupRecord.log_content = Join(log_lines)
        /\ SetupRecord.end_line = TotalLines - 1

\* C10 (amended): for an empty step list the only record is the setup record;
\* its content is the lines strictly before the first sentinel line, the
\* whole log only when no line contains the sentinel, and when a sentinel
\* line exists its range ends at that line's index.
C10_EmptyStepsSetupOnly ==
    (Done /\ job_steps = <<>>) =>
        /\ Len(parsed_steps) = 1
        /\ SetupRecord.type = "setup"
        /\ SetupRecord.start_line = 0
        /\ SentinelHits = {} => SetupRecord.log_content = Join(log_lines)
        /\ SentinelHits # {} =>
              /\ SetupRecord.log_content = Join(SubSeq(log_lines, 1, FirstHit))
              /\ SetupRecord.end_line = FirstHit

C10_Witness ==
    /\ Done
    /\ job_steps = <<>>
    /\ SentinelHits # {}
    /\ FirstHit >= 1
    /\ FirstHit < TotalLines - 1

----------------------------------------------------------------------------
(* Properties of the locator *)

\* the positions p at which identifier ident occurs in line, case folded
Occurrences(ident, line) ==
    {p \in 0..(Len(line) - Len(ident)) :
        \A k \in 1..Len(ident) : Fold(line[p + k]) = Fold(ident[k])}

\* the occurrence at p is directly followed by a hyphen
HyphenFollows(ident, line, p) ==
    p + Len(ident) + 1 <= Len(line) /\ line[p + Len(ident) + 1] = "-"

\* C11: an identifier never matches a line in which each of its occurrences
\* is the prefix of a longer hyphenated token ('Run test' in 'Run test-unit'):
\* a step is resolved only at a line holding an occurrence not followed by a
\* hyphen.
C11_HyphenIsNoBoundary ==
    Done =>
        \A k \in Resolved :
            \E p \in Occurrences(parsed_steps[k].pattern_matched,
                                 Line(parsed_steps[k].start_line)) :
                ~HyphenFollows(parsed_steps[k].pattern_matched,
                               Line(parsed_steps[k].start_line), p)

\* positions of the patterns found so far
Found == {k \in 1..Len(step_patterns) : step_patterns[k].found}

\* pattern k matches the normalized line n
Hits(k, n) == ReSearch(step_patterns[k].pattern, Line(n))

\* C14: a log line resolves at most one step: no two resolved steps share a
\* start_line, and a line that matches several still-unfound steps resolves
\* the one that comes first in the step list.
C14_OneStepPerLine ==
    pc \in {"scan", "unfound", "done"} =>
        /\ \A k \in Found, m \in Found :
              k # m => step_patterns[k].start_idx # step_patterns[m].start_idx
        /\ \A k \in Found, m \in 1..Len(step_patterns) :
              (m < k /\ Hits(m, step_patterns[k].start_idx)) =>
                  /\ m \in Found
                  /\ step_patterns[m].start_idx < step_patterns[k].start_idx
        /\ Done =>
              \A k \in Resolved, m \in Resolved :
                  k # m => parsed_steps[k].start_line # parsed_steps[m].start_line

C14_Witness ==
    /\ Done
    /\ \E k \in Found, m \in 1..Len(step_patterns) :
          /\ k < m
          /\ Hits(m, step_patterns[k].start_idx)
          /\ m \notin Found

\* line indices at or after the search start that match pattern k
MatchingLines(k) ==
    {n \in (setup_end_idx + 1)..(TotalLines - 1) : Hits(k, n)}

\* C15 (as stated): the start_line of a resolved step is the smallest line
\* index at or after the search start whose line matches its identifier.
C15_FirstOccurrence ==
    Done =>
        \A k \in Found :
            /\ step_patterns[k].start_idx \in MatchingLines(k)
            /\ \A n \in MatchingLines(k) : step_patterns[k].start_idx <= n

\* the matching lines that no step earlier in the list starts on
FreeLines(k) ==
    {n \in MatchingLines(k) :
        \A m \in Found : m < k => step_patterns[m].start_idx # n}

\* C15 (amended): the start_line of a resolved step is the smallest line
\* index at or after the search start whose line matches its identifier and
\* is not the start_line of a step earlier in the step list.
C15_FirstFreeOccurrence ==
    Done =>
        /\ \A k \in Found :
              /\ step_patterns[k].start_idx \in FreeLines(k)
              /\ \A n \in FreeLines(k) : step_patterns[k].start_idx <= n
        /\ \A k \in Resolved :
              \E m \in Found :
                  /\ parsed_steps[k].start_line = step_patterns[m].start_idx
                  /\ parsed_steps[k].pattern_matched = step_patterns[m].pattern

C15_Witness ==
    /\ Done
    /\ \E k \in Found :
          \E n \in MatchingLines(k) : n < step_patterns[k].start_idx

\* positions in the step list of the patterns not found, ascending
UnfoundOrder ==
    LET u == {k \in 1..Len(step_patterns) : ~step_patterns[k].found}
    IN  [j \in 1..Cardinality(u) |->
            CHOOSE k \in u : Cardinality({m \in u : m < k}) = j - 1]

\* C16: after the setup record come the resolved records in strictly
\* ascending start_line order, then the unresolved records in input order.
C16_ResolvedThenUnresolved ==
    Done =>
        LET nr == Cardinality(Resolved)
        IN  /\ Resolved = 2..(nr + 1)
            /\ \A k \in 2..nr :
                  parsed_steps[k].start_line < parsed_steps[k + 1].start_line
            /\ Len(parsed_steps) = nr + 1 + Len(UnfoundOrder)
            /\ \A j \in 1..Len(UnfoundOrder) :
                  BuiltFrom(parsed_steps[nr + 1 + j], job_steps[UnfoundOrder[j]])

C16_Witness ==
    /\ Done
    /\ Resolved # {}
    /\ Unresolved # {}
    /\ ~step_patterns[1].found
    /\ job_steps[1] # job_steps[2]

----------------------------------------------------------------------------
(* get_step_identifier on its own: the pattern list of one step *)

MaxRunLen == 3

\* characters of a run script: block marker, blank, line feed, a letter
RunChars == {"|", " ", NL, "a"}

RunValues == SeqsUpTo(RunChars, MaxRunLen)

StepKeys == {"run", "uses", "name", "with"}

\* the step with the keys of D, its run script being r
StepWith(D, r) ==
    [k \in D |->
        CASE k = "run" -> r
          [] k = "uses" -> <<"u">>
          [] k = "name" -> <<"n">>
          [] k = "with" -> << << <<"k">>, <<"v">> >> >>]

IdentSteps ==
    {StepWith(D, r) : D \in {E \in SUBSET StepKeys : "run" \in E}, r \in RunValues}
    \cup {StepWith(D, <<>>) : D \in {E \in SUBSET StepKeys : "run" \notin E}}

IdentInit ==
    /\ pc = "ident"
    /\ log_content = <<>>
    /\ job_steps \in {<<st>> : st \in IdentSteps}
    /\ job_name = <<>>
    /\ log_lines = <<>>
    /\ setup_end_idx = 0
    /\ step_patterns = <<>>
    /\ scan_i = 0
    /\ parsed_steps = <<>>
    /\ NoExtraction
    /\ NoContexts

\* the loop that derives one pattern per step
DeriveIdentifiers ==
    /\ pc = "ident"
    /\ step_patterns' = StepPatterns(job_steps)
    /\ pc' = "ident_done"
    /\ UNCHANGED <<log_content, job_steps, job_name, log_lines,
                   setup_end_idx, scan_i, parsed_steps>>
    /\ UNCHANGED <<extractVars, contextVars>>

IdentNext == DeriveIdentifiers

SpecIdent == IdentInit /\ [][IdentNext]_vars

IdentDone == pc = "ident_done"

TheStep == job_steps[1]

TheIdentifier == step_patterns[1].pattern

\* the part of the run script before its first line break
RunFirstLine ==
    LET brk == {k \in 1..Len(TheStep.run) : TheStep.run[k] \in LineBreaks}
    IN  IF brk = {} THEN TheStep.run
        ELSE SubSeq(TheStep.run, 1, (CHOOSE k \in brk : \A m \in brk : k <= m) - 1)

\* r is fl without its leading '|' characters and without the whitespace
\* around what is left
Stripped(fl, r) ==
    \E b \in 0..Len(fl) :
        /\ \A k \in 1..b : fl[k] = "|"
        /\ b < Len(fl) => fl[b + 1] # "|"
        /\ \E i \in (b + 1)..(Len(fl) + 1), j \in b..Len(fl) :
              /\ i <= j + 1
              /\ \A k \in (b + 1)..(i - 1) : fl[k] \in Whitespace
              /\ \A k \in (j + 1)..Len(fl) : fl[k] \in Whitespace
              /\ r = SubSeq(fl, i, j)
              /\ r # <<>> => (r[1] \notin Whitespace /\ r[Len(r)] \notin Whitespace)

\* the first line holds a character that is neither '|' nor whitespace
NonBlankFirstLine ==
    \E k \in 1..Len(RunFirstLine) : RunFirstLine[k] \notin Whitespace \cup {"|"}

\* C12: the identifier follows run > uses > name > placeholder: with a run
\* whose first line is not blank it is 'Run ' plus that line without leading
\* '|' and surrounding whitespace; without run it is 'Run ' + uses; without
\* run and uses 'Run ' + name; else 'Run Unknown Step'.  A step that has run
\* never takes its identifier from uses or name.
C12_PriorityChain ==
    IdentDone =>
        /\ (Has(TheStep, "run") /\ NonBlankFirstLine) =>
              \E r \in {SubSeq(RunFirstLine, i, j) :
                            i \in 1..Len(RunFirstLine), j \in 1..Len(RunFirstLine)} :
                  /\ r # <<>>
                  /\ Stripped(RunFirstLine, r)
                  /\ TheIdentifier = RunTag \o r
        /\ Has(TheStep, "run") =>
              /\ TheIdentifier # RunTag \o <<"u">>
              /\ TheIdentifier # RunTag \o <<"n">>
        /\ (~Has(TheStep, "run") /\ Has(TheStep, "uses")) =>
              TheIdentifier = RunTag \o TheStep.uses
        /\ (~Has(TheStep, "run") /\ ~Has(TheStep, "uses") /\ Has(TheStep, "name")) =>
              TheIdentifier = RunTag \o TheStep.name
        /\ (~Has(TheStep, "run") /\ ~Has(TheStep, "uses") /\ ~Has(TheStep, "name")) =>
              TheIdentifier = UnknownStep

C12_Witness ==
    /\ IdentDone
    /\ Has(TheStep, "run") /\ Has(TheStep, "uses") /\ Has(TheStep, "name")
    /\ TheStep.run = <<"|", " ", "a">>
    /\ TheIdentifier = RunTag \o <<"a">>

\* the run script is empty, only whitespace, or only a '|' marker
BlankRun ==
    \/ TheStep.run = <<>>
    \/ \A k \in 1..Len(TheStep.run) : TheStep.run[k] \in Whitespace
    \/ TheStep.run = <<"|">>

\* C13: a step whose run is present but empty or blank gets the placeholder
\* 'Run Unknown Step'.
C13_BlankRunPlaceholder ==
    (IdentDone /\ Has(TheStep, "run") /\ BlankRun) => TheIdentifier = UnknownStep

----------------------------------------------------------------------------
(* The normalizer on its own *)

MaxChunks == 4

\* pieces of raw text: the escape character, the rest of a colour sequence,
\* the opening of a marker, a letter, the closing bracket, a line feed
ChunkPalette ==
    {<<ESC>>, <<"[", "1", "m">>, <<"#", "#", "[">>, <<"g">>, <<"]">>, <<NL>>}

RECURSIVE Concat(_)
Concat(chunks) ==
    IF chunks = <<>> THEN <<>> ELSE Head(chunks) \o Concat(Tail(chunks))

RawTexts == {Concat(cs) : cs \in SeqsUpTo(ChunkPalette, MaxChunks)}

NormInit ==
    /\ pc = "norm"
    /\ log_content \in RawTexts
    /\ job_steps = <<>>
    /\ job_name = <<>>
    /\ log_lines = <<>>
    /\ setup_end_idx = 0
    /\ step_patterns = <<>>
    /\ scan_i = 0
    /\ parsed_steps = <<>>
    /\ NoExtraction
    /\ NoContexts

\* the two substitutions and the split
NormalizeLog ==
    /\ pc = "norm"
    /\ log_lines' = Normalize(log_content)
    /\ pc' = "norm_done"
    /\ UNCHANGED <<log_content, job_steps, job_name, setup_end_idx,
                   step_patterns, scan_i, parsed_steps>>
    /\ UNCHANGED <<extractVars, contextVars>>

NormNext == NormalizeLog

SpecNorm == NormInit /\ [][NormNext]_vars

NormDone == pc = "norm_done"

\* s holds ESC '[' digits/semicolons 'm'|'K'
HasColour(s) ==
    \E a \in 1..Len(s), b \in 1..Len(s) :
        /\ a + 2 <= b
        /\ s[a] = ESC
        /\ s[a + 1] = "["
        /\ \A k \in (a + 2)..(b - 1) : s[k] \in Digits \cup {";"}
        /\ s[b] \in {"m", "K"}

\* s holds '##[' , at least one character other than ']' , ']'
HasMarker(s) ==
    \E a \in 1..Len(s), b \in 1..Len(s) :
        /\ a + 4 <= b
        /\ s[a] = "#" /\ s[a + 1] = "#" /\ s[a + 2] = "["
        /\ \A k \in (a + 3)..(b - 1) : s[k] # "]"
        /\ s[b] = "]"

\* C18: for a raw log without colour sequence and without marker, joining
\* the normalized lines with newline gives back the raw log.
C18_CleanLogUnchanged ==
    (NormDone /\ ~HasColour(log_content) /\ ~HasMarker(log_content)) =>
        Join(log_lines) = log_content

C18_Witness ==
    /\ NormDone
    /\ ~HasColour(log_content)
    /\ ~HasMarker(log_content)
    /\ Contains(log_content, <<ESC>>)
    /\ Contains(log_content, <<"#", "#", "[", "]">>)
    /\ Contains(log_content, <<NL>>)
    /\ Len(log_lines) = 2

\* C19: after normalization no line holds a colour sequence or a marker, and
\* normalizing the joined output again changes nothing.
C19_OutputIsClean ==
    NormDone =>
        /\ \A k \in 1..Len(log_lines) :
              ~HasColour(log_lines[k]) /\ ~HasMarker(log_lines[k])
        /\ Normalize(Join(log_lines)) = log_lines

\* number of line feeds in s
NewlineCount(s) == Cardinality({k \in 1..Len(s) : s[k] = NL})

\* C20: the number of normalized lines is 1 plus the number of line feeds of
\* the raw log, and normalized line i is raw line i with colour sequences and
\* markers removed.
C20_LinesPreserved ==
    NormDone =>
        /\ Len(log_lines) = 1 + NewlineCount(log_content)
        /\ \A k \in 1..Len(log_lines) :
              k <= Len(Split(log_content)) =>
                  log_lines[k] = Cleaned(Split(log_content)[k])

----------------------------------------------------------------------------
(* One call of parse_log_by_steps on degenerate input *)

\* raw log lines: the sentinel of job b, the header of a step without
\* identifier, an empty line
DegenerateLines ==
    {<<"C", "o", "m", "p", "l", "e", "t", "e", " ", "j", "o", "b", " ", "n", "a", "m", "e", ":", " ", "b">>,
     <<"R", "u", "n", " ", "U", "n", "k", "n", "o", "w", "n", " ", "S", "t", "e", "p">>,
     <<>>}

\* step specifications: the empty mapping, a mapping without run, uses and
\* name, and a run step
DegenerateStepPalette ==
    {[f \in {} |-> f],
     [with |-> << << <<"k">>, <<"v">> >> >>],
     [run |-> <<"a">>]}

DegenerateInputs ==
    {Join(ls) : ls \in SeqsUpTo(DegenerateLines, MaxLines)}
        \X SeqsUpTo(DegenerateStepPalette, MaxSteps)

DegenerateCall ==
    /\ pc = "idle"
    /\ \E inp \in DegenerateInputs : Enter(inp[1], inp[2], JobB)

\* one call, from entry to the return statement
DegenerateNext ==
    \/ DegenerateCall
    \/ ScanLine
    \/ AssignRanges
    \/ AppendUnfound

\* the loops of a sequential call keep running
SpecDegenerate ==
    /\ Init
    /\ [][DegenerateNext]_vars
    /\ WF_vars(ScanLine)
    /\ WF_vars(AssignRanges)
    /\ WF_vars(AppendUnfound)

NoIdentifier(step) ==
    ~Has(step, "run") /\ ~Has(step, "uses") /\ ~Has(step, "name")

Degenerate ==
    \/ log_content = <<>>
    \/ job_steps = <<>>
    \/ SentinelLines(log_lines, job_name) = {}
    \/ \E k \in 1..Len(job_steps) : NoIdentifier(job_steps[k])

----------------------------------------------------------------------------
(* Further properties of the locator *)

\* C27: every resolved step record has sentinel index < start_line <=
\* end_line <= number of normalized lines - 1, and the normalized line at
\* start_line matches the record's pattern_matched.
C27_ResolvedWellFormed ==
    Done =>
        \A k \in Resolved :
            /\ setup_end_idx < parsed_steps[k].start_line
            /\ \A n \in SentinelHits : n = FirstHit =>
                  n < parsed_steps[k].start_line
            /\ parsed_steps[k].start_line <= parsed_steps[k].end_line
            /\ parsed_steps[k].end_line <= TotalLines - 1
            /\ ReSearch(parsed_steps[k].pattern_matched,
                        Line(parsed_steps[k].start_line))

C27_Witness ==
    /\ Done
    /\ SentinelHits # {}
    /\ Cardinality(Resolved) = 2
    /\ \E k \in Resolved :
          /\ FirstHit + 1 < parsed_steps[k].start_line
          /\ parsed_steps[k].start_line < parsed_steps[k].end_line
    /\ \E k \in Resolved : parsed_steps[k].end_line < TotalLines - 1

\* line indices after the sentinel line whose normalized line is exactly the
\* identifier of pattern k
VerbatimLines(k) ==
    {n \in (setup_end_idx + 1)..(TotalLines - 1) :
        Line(n) = step_patterns[k].pattern}

\* C28: for a single-step list, if a normalized line after the sentinel line
\* equals the step's identifier, the step is resolved at the first such line.
C28_VerbatimHeaderFound ==
    (Done /\ Len(job_steps) = 1 /\ SentinelHits # {}
          /\ VerbatimLines(1) # {}) =>
        /\ step_patterns[1].found
        /\ step_patterns[1].start_idx \in VerbatimLines(1)
        /\ \A n \in VerbatimLines(1) : step_patterns[1].start_idx <= n
        /\ parsed_steps[2].start_line = step_patterns[1].start_idx

\* C29: if a step is unresolved, every line at or after the search start
\* that matches its identifier is the start_line of a resolved step that
\* precedes it in the step list.
C29_UnresolvedHadNoChance ==
    Done =>
        /\ \A k \in 1..Len(step_patterns) :
              ~step_patterns[k].found =>
                  \A n \in MatchingLines(k) :
                      \E m \in Found :
                          /\ m < k
                          /\ step_patterns[m].start_idx = n
                          /\ \E r \in Resolved :
                                /\ parsed_steps[r].start_line = n
                                /\ BuiltFrom(parsed_steps[r], job_steps[m])
        /\ Cardinality(Unresolved) = Len(step_patterns) - Cardinality(Found)

C29_Witness ==
    /\ Done
    /\ \E k \in 1..Len(step_patterns) :
          /\ ~step_patterns[k].found
          /\ Cardinality(MatchingLines(k)) = 1
    /\ Len(UnfoundOrder) = 1

----------------------------------------------------------------------------
(* get_job_steps_from_yaml on its own *)

MaxJobs == 3

EmptyDict == [f \in {} |-> f]

\* str.lower()
Lower(s) == [k \in 1..Len(s) |-> Fold(s[k])]

\* first position of a set of positions
First(S) == CHOOSE k \in S : \A m \in S : k <= m

\* variant: the name field is looked at before the job key
GetJobStepsFromYaml_NameFirst(yaml, name) ==
    LET jobs == Get(yaml, "jobs", <<>>)
        byKey == {k \in 1..Len(jobs) : jobs[k][1] = name}
        byName == {k \in 1..Len(jobs) :
                      Has(jobs[k][2], "name") /\ jobs[k][2].name = name}
        byPart == {k \in 1..Len(jobs) :
                      Contains(Lower(Get(jobs[k][2], "name", <<>>)), Lower(name))}
    IN  IF byName # {} THEN Get(jobs[First(byName)][2], "steps", <<>>)
        ELSE IF byKey # {} THEN Get(jobs[First(byKey)][2], "steps", <<>>)
        ELSE IF byPart # {} THEN Get(jobs[First(byPart)][2], "steps", <<>>)
        ELSE <<>>

\* the jobs mapping is a sequence of <<key, job_data>> in document order
GetJobStepsFromYaml(yaml, name) ==
    LET jobs == Get(yaml, "jobs", <<>>)
        byKey == {k \in 1..Len(jobs) : jobs[k][1] = name}
        byName == {k \in 1..Len(jobs) :
                      Has(jobs[k][2], "name") /\ jobs[k][2].name = name}
        byPart == {k \in 1..Len(jobs) :
                      Contains(Lower(Get(jobs[k][2], "name", <<>>)), Lower(name))}
    IN  IF byKey # {} THEN Get(jobs[First(byKey)][2], "steps", <<>>)
        ELSE IF byName # {} THEN Get(jobs[First(byName)][2], "steps", <<>>)
        ELSE IF byPart # {} THEN Get(jobs[First(byPart)][2], "steps", <<>>)
        ELSE <<>>

LookupName == <<"a", "b">>

JobKeys == {<<"a", "b">>, <<"j", "1">>, <<"j", "2">>, <<"j", "3">>}

\* name fields: absent, equal to the name looked up, equal up to case,
\* containing it up to case
JobNames == {None, <<"a", "b">>, <<"A", "b">>, <<"x", "A", "B">>}

\* a job whose steps name its key; a job may lack the name and the steps
JobData(key, nm, withSteps) ==
    (IF nm = None THEN EmptyDict ELSE [name |-> nm])
    @@ (IF withSteps THEN [steps |-> <<[uses |-> key]>>] ELSE EmptyDict)

JobPalette ==
    {<<key, JobData(key, nm, TRUE)>> : key \in JobKeys, nm \in JobNames}
    \cup {<<key, JobData(key, LookupName, FALSE)>> : key \in JobKeys}

Yamls ==
    {EmptyDict}
    \cup {[jobs |-> js] : js \in
            {js \in SeqsUpTo(JobPalette, MaxJobs) :
                \A k \in 1..Len(js), m \in 1..Len(js) :
                    k # m => js[k][1] # js[m][1]}}

YamlInit ==
    /\ pc = "yaml"
    /\ workflow_yaml \in Yamls
    /\ job_name = LookupName
    /\ job_steps = <<>>
    /\ log_content = <<>>
    /\ log_lines = <<>>
    /\ setup_end_idx = 0
    /\ step_patterns = <<>>
    /\ scan_i = 0
    /\ parsed_steps = <<>>
    /\ runs = <<>>
    /\ run_i = 0
    /\ workflow_cache = <<>>
    /\ workflow_yaml_cache = <<>>
    /\ fetches = <<>>
    /\ NoContexts

LookupJobSteps ==
    /\ pc = "yaml"
    /\ job_steps' = GetJobStepsFromYaml(workflow_yaml, job_name)
    /\ pc' = "yaml_done"
    /\ UNCHANGED <<log_content, job_name, log_lines, setup_end_idx,
                   step_patterns, scan_i, parsed_steps>>
    /\ UNCHANGED <<extractVars, contextVars>>

YamlNext == LookupJobSteps

SpecYaml == YamlInit /\ [][YamlNext]_vars

YamlDone == pc = "yaml_done"

YamlJobs == IF Has(workflow_yaml, "jobs") THEN workflow_yaml.jobs ELSE <<>>

KeyMatches == {k \in 1..Len(YamlJobs) : YamlJobs[k][1] = job_name}

NameMatches ==
    {k \in 1..Len(YamlJobs) :
        Has(YamlJobs[k][2], "name") /\ YamlJobs[k][2].name = job_name}

PartMatches ==
    {k \in 1..Len(YamlJobs) :
        /\ Has(YamlJobs[k][2], "name")
        /\ Contains(Lower(YamlJobs[k][2].name), Lower(job_name))}

StepsOf(k) ==
    IF Has(YamlJobs[k][2], "steps") THEN YamlJobs[k][2].steps ELSE <<>>

\* C22: the steps returned are those of a job whose key equals job_name if
\* there is one; otherwise of a job whose name field equals job_name if
\* there is one; otherwise of a job whose name field contains job_name up to
\* case if there is one; otherwise the empty list.
C22_JobPriority ==
    YamlDone =>
        /\ KeyMatches # {} => \E k \in KeyMatches : job_steps = StepsOf(k)
        /\ (KeyMatches = {} /\ NameMatches # {}) =>
              \E k \in NameMatches : job_steps = StepsOf(k)
        /\ (KeyMatches = {} /\ NameMatches = {} /\ PartMatches # {}) =>
              \E k \in PartMatches : job_steps = StepsOf(k)
        /\ (KeyMatches = {} /\ NameMatches = {} /\ PartMatches = {}) =>
              job_steps = <<>>

C22_Witness ==
    /\ YamlDone
    /\ Len(YamlJobs) = 3
    /\ NameMatches = {1}
    /\ PartMatches = {1, 2}
    /\ KeyMatches = {3}
    /\ job_steps = <<[uses |-> job_name]>>

----------------------------------------------------------------------------
(* Domain entities (src/domain) and their serialization.  An entity is a   *)
(* record of its dataclass fields, a dict a record of its keys.  Of the     *)
(* optional scalar fields that to_dict and from_dict copy one by one, one   *)
(* per entity is kept; Absent is None in a place that holds an entity or a  *)
(* dict, None is None in a place that holds a string.                       *)

Absent == [absent |-> TRUE]

\* if value: of a dict or None
Truthy(d) == d # Absent /\ DOMAIN d # {}

\* data.get(key) for a key that holds a dict
GetDict(data, key) == IF Has(data, key) THEN data[key] ELSE Absent

GHActor_to_dict(a) == [login |-> a.login, id |-> a.id]

GHActor_from_dict(data) == [login |-> data.login, id |-> data.id]

GHWorkflow_to_dict(w) == [id |-> w.id, path |-> w.path, name |-> w.name]

GHWorkflow_from_dict(data) ==
    [id |-> data.id, path |-> data.path, name |-> Get(data, "name", None)]

GHCommit_to_dict(c) ==
    [id |-> c.id, message |-> c.message, timestamp |-> c.timestamp,
     author_name |-> c.author_name, author_email |-> c.author_email,
     tree_id |-> c.tree_id, committer_name |-> c.committer_name,
     committer_email |-> c.committer_email]

\* the nested author and committer of the provider's format are flattened
GHCommit_from_dict(data) ==
    LET nestedAuthor == Has(data, "author") /\ data.author # Absent
        nestedCommitter == Has(data, "committer") /\ data.committer # Absent
    IN  [id |-> data.id, message |-> data.message,
         timestamp |-> data.timestamp,
         author_name |-> IF nestedAuthor THEN Get(data.author, "name", <<>>)
                         ELSE Get(data, "author_name", <<>>),
         author_email |-> IF nestedAuthor THEN Get(data.author, "email", <<>>)
                          ELSE Get(data, "author_email", <<>>),
         tree_id |-> data.tree_id,
         committer_name |-> IF nestedCommitter
                            THEN Get(data.committer, "name", None)
                            ELSE Get(data, "committer_name", None),
         committer_email |-> IF nestedCommitter
                             THEN Get(data.committer, "email", None)
                             ELSE Get(data, "committer_email", None)]

GHStep_to_dict(st) ==
    [name |-> st.name, number |-> st.number, status |-> st.status,
     conclusion |-> st.conclusion, log_file_path |-> st.log_file_path]

GHStep_from_dict(data) ==
    [name |-> data.name, number |-> data.number, status |-> data.status,
     conclusion |-> Get(data, "conclusion", None),
     log_file_path |-> Get(data, "log_file_path", None)]

GHJob_to_dict(j) ==
    [id |-> j.id, name |-> j.name, run_attempt |-> j.run_attempt,
     status |-> j.status, conclusion |-> j.conclusion,
     full_log_path |-> j.full_log_path,
     steps |-> [k \in 1..Len(j.steps) |-> GHStep_to_dict(j.steps[k])]]

GHJob_from_dict(data) ==
    [id |-> data.id, name |-> data.name, run_attempt |-> data.run_attempt,
     status |-> data.status, conclusion |-> Get(data, "conclusion", None),
     full_log_path |-> Get(data, "full_log_path", None),
     steps |-> LET l == Get(data, "steps", <<>>)
               IN  [k \in 1..Len(l) |-> GHStep_from_dict(l[k])]]

GHRunAttempt_to_dict(a) ==
    [run_attempt |-> a.run_attempt, status |-> a.status,
     conclusion |-> a.conclusion, started_at |-> a.started_at,
     jobs |-> [k \in 1..Len(a.jobs) |-> GHJob_to_dict(a.jobs[k])]]

\* started_at or run_started_at: an empty or missing started_at falls back
GHRunAttempt_from_dict(data) ==
    [run_attempt |-> data.run_attempt, status |-> data.status,
     conclusion |-> Get(data, "conclusion", None),
     started_at |-> IF Get(data, "started_at", None) \notin {None, <<>>}
                    THEN data.started_at
                    ELSE Get(data, "run_started_at", None),
     jobs |-> LET l == Get(data, "jobs", <<>>)
              IN  [k \in 1..Len(l) |-> GHJob_from_dict(l[k])]]

GHRun_to_dict(r) ==
    [id |-> r.id, run_number |-> r.run_number, workflow_id |-> r.workflow_id,
     status |-> r.status, conclusion |-> r.conclusion, name |-> r.name,
     workflow |-> IF r.workflow # Absent THEN GHWorkflow_to_dict(r.workflow)
                  ELSE Absent,
     actor |-> IF r.actor # Absent THEN GHActor_to_dict(r.actor) ELSE Absent,
     commit |-> IF r.commit # Absent THEN GHCommit_to_dict(r.commit)
                ELSE Absent,
     attempts |-> [k \in 1..Len(r.attempts) |->
                      GHRunAttempt_to_dict(r.attempts[k])]]

\* the commit is read from head_commit and the attempts from run_attempts
GHRun_from_dict(data) ==
    [id |-> data.id, run_number |-> data.run_number,
     workflow_id |-> data.workflow_id, status |-> data.status,
     conclusion |-> Get(data, "conclusion", None),
     name |-> Get(data, "name", None),
     workflow |-> IF Truthy(GetDict(data, "workflow"))
                  THEN GHWorkflow_from_dict(data.workflow) ELSE Absent,
     actor |-> IF Truthy(GetDict(data, "actor"))
               THEN GHActor_from_dict(data.actor) ELSE Absent,
     commit |-> IF Truthy(GetDict(data, "head_commit"))
                THEN GHCommit_from_dict(data.head_commit) ELSE Absent,
     attempts |-> LET l == Get(data, "run_attempts", <<>>)
                  IN  [k \in 1..Len(l) |-> GHRunAttempt_from_dict(l[k])]]

\* the repository structure is not looked at here: repository is None
GHFailureContext_to_dict(fc) ==
    [run |-> GHRun_to_dict(fc.run),
     attempt |-> GHRunAttempt_to_dict(fc.attempt),
     job |-> GHJob_to_dict(fc.job),
     failed_step |-> IF fc.failed_step # Absent
                     THEN GHStep_to_dict(fc.failed_step) ELSE Absent,
     commit |-> IF fc.commit # Absent THEN GHCommit_to_dict(fc.commit)
                ELSE Absent,
     repository |-> Absent,
     workflow |-> IF fc.workflow # Absent
                  THEN GHWorkflow_to_dict(fc.workflow) ELSE Absent,
     actor |-> IF fc.actor # Absent THEN GHActor_to_dict(fc.actor)
               ELSE Absent,
     full_log_path |-> fc.full_log_path]

GHFailureContext_from_dict(data) ==
    [run |-> GHRun_from_dict(data.run),
     attempt |-> GHRunAttempt_from_dict(data.attempt),
     job |-> GHJob_from_dict(data.job),
     failed_step |-> IF Truthy(GetDict(data, "failed_step"))
                     THEN GHStep_from_dict(data.failed_step) ELSE Absent,
     commit |-> IF Truthy(GetDict(data, "commit"))
                THEN GHCommit_from_dict(data.commit) ELSE Absent,
     repository |-> Absent,
     workflow |-> IF Truthy(GetDict(data, "workflow"))
                  THEN GHWorkflow_from_dict(data.workflow) ELSE Absent,
     actor |-> IF Truthy(GetDict(data, "actor"))
               THEN GHActor_from_dict(data.actor) ELSE Absent,
     full_log_path |-> Get(data, "full_log_path", None)]

----------------------------------------------------------------------------
(* generate_failure_contexts: one run file *)

MaxAttempts == 2

Failure == <<"f", "a", "i", "l", "u", "r", "e">>

Success == <<"s", "u", "c", "c", "e", "s", "s">>

Completed == <<"c", "o", "m", "p", "l", "e", "t", "e", "d">>

\* variant: the last failed step of the job
FindFailedStep_Last(job) ==
    LET failed == {k \in 1..Len(job.steps) : job.steps[k].conclusion = Failure}
    IN  IF failed = {} THEN Absent
        ELSE job.steps[CHOOSE k \in failed : \A m \in failed : m <= k]

\* find_failed_step: the first step whose conclusion is 'failure', or None
FindFailedStep(job) ==
    LET failed == {k \in 1..Len(job.steps) : job.steps[k].conclusion = Failure}
    IN  IF failed = {} THEN Absent ELSE job.steps[First(failed)]

\* the log path of a context: the failed step's when it has one, else the
\* job's when it has one, else None
LogPath(job, failed_step) ==
    IF failed_step # Absent /\ failed_step.log_file_path \notin {None, <<>>}
    THEN failed_step.log_file_path
    ELSE IF job.full_log_path \notin {None, <<>>} THEN job.full_log_path
    ELSE None

CreateContext(r, attempt, job) ==
    LET failed_step == FindFailedStep(job)
    IN  [run |-> r, attempt |-> attempt, job |-> job,
         failed_step |-> failed_step, commit |-> r.commit,
         repository |-> Absent, workflow |-> r.workflow, actor |-> r.actor,
         full_log_path |-> LogPath(job, failed_step)]

DigitChars == <<"0", "1", "2", "3", "4", "5", "6", "7", "8", "9">>

RECURSIVE Decimal(_)
\* str(n) of a natural number
Decimal(n) ==
    IF n < 10 THEN <<DigitChars[n + 1]>>
    ELSE Decimal(n \div 10) \o <<DigitChars[(n % 10) + 1]>>

\* str.replace(old, new) for single characters
Replace(str, old, new) ==
    [k \in 1..Len(str) |-> IF str[k] = old THEN new ELSE str[k]]

\* GHFailureContext.run_identifier
RunIdentifier(fc) ==
    <<"r", "u", "n", "_">> \o Decimal(fc.run.id)
    \o <<"_", "n", "u", "m", "b", "e", "r", "_">> \o Decimal(fc.run.run_number)
    \o <<"_">> \o Replace(fc.job.name, " ", "_")

FileName(fc) == RunIdentifier(fc) \o <<".", "j", "s", "o", "n">>

\* open(path, 'w') and json.dump: the file is created or overwritten
WriteFile(files, path, content) ==
    [f \in DOMAIN files \cup {path} |->
        IF f = path THEN content ELSE files[f]]

StepDict(num, concl, path) ==
    [name |-> <<"s">>, number |-> num, status |-> Completed,
     conclusion |-> concl, log_file_path |-> path]

JobDict(id, nm, att, concl, path, steps) ==
    [id |-> id, name |-> nm, run_attempt |-> att, status |-> Completed,
     conclusion |-> concl, full_log_path |-> path, steps |-> steps]

\* jobs of attempt a: a failed job with two failed steps, a failed job whose
\* name differs in the separator only, a successful job, a failed job
\* without steps
JobAB(a) ==
    JobDict(1, <<"a", " ", "b">>, a, Failure, <<"j", "1">>,
            <<StepDict(1, Success, None), StepDict(2, Failure, <<"s", "2">>),
              StepDict(3, Failure, <<"s", "3">>)>>)

JobA_B(a) ==
    JobDict(2, <<"a", "_", "b">>, a, Failure, None,
            <<StepDict(1, Failure, None)>>)

JobOk(a) ==
    JobDict(3, <<"c">>, a, Success, <<"j", "3">>,
            <<StepDict(1, Success, None)>>)

JobNoSteps(a) == JobDict(4, <<"d">>, a, Failure, <<"j", "4">>, <<>>)

JobLists(a) ==
    {<<>>, <<JobAB(a)>>, <<JobA_B(a)>>, <<JobOk(a), JobNoSteps(a)>>,
     <<JobAB(a), JobA_B(a)>>, <<JobNoSteps(a), JobAB(a)>>}

AttemptDict(a, jobs) ==
    [run_attempt |-> a, status |-> Completed, conclusion |-> Failure,
     started_at |-> <<"t">>, jobs |-> jobs]

AttemptLists ==
    UNION {{[a \in 1..n |-> AttemptDict(a, js[a])] :
               js \in [1..n -> UNION {JobLists(a) : a \in 1..n}]}
           : n \in 0..MaxAttempts}

\* the attempts of a run file are numbered 1, 2, ...
WellNumbered(atts) ==
    \A a \in 1..Len(atts) :
        \A k \in 1..Len(atts[a].jobs) : atts[a].jobs[k].run_attempt = a

HeadCommit ==
    [id |-> <<"c", "1">>, message |-> <<"m">>, timestamp |-> <<"t">>,
     tree_id |-> <<"t", "1">>,
     author |-> [name |-> <<"n">>, email |-> <<"e">>]]

WorkflowDict == [id |-> 3, path |-> <<"w">>, name |-> <<"w">>]

ActorDict == [login |-> <<"u">>, id |-> 9]

RunDict(atts) ==
    [id |-> 12, run_number |-> 5, workflow_id |-> 3, status |-> Completed,
     conclusion |-> Failure, name |-> <<"w">>, run_attempts |-> atts]

\* run files: with or without the head commit, the workflow and the actor
RunFiles ==
    {RunDict(atts) : atts \in {x \in AttemptLists : WellNumbered(x)}}
    \cup {RunDict(atts) @@ [head_commit |-> HeadCommit,
                            workflow |-> WorkflowDict, actor |-> ActorDict] :
            atts \in {x \in AttemptLists : WellNumbered(x)}}

ContextInit ==
    /\ pc = "main"
    /\ run_data \in RunFiles
    /\ run = <<>>
    /\ attempt_i = 0
    /\ job_i = 0
    /\ all_failure_contexts = <<>>
    /\ output_files = <<>>
    /\ fc_i = 0
    /\ deserialized = <<>>
    /\ NoParse
    /\ NoExtraction

\* create_failure_contexts_from_run: the run is parsed
ParseRun ==
    /\ pc = "main"
    /\ run' = GHRun_from_dict(run_data)
    /\ attempt_i' = 1
    /\ job_i' = 1
    /\ pc' = "jobs"
    /\ UNCHANGED <<run_data, all_failure_contexts, output_files, fc_i,
                   deserialized>>
    /\ UNCHANGED <<log_content, job_steps, job_name, log_lines, setup_end_idx,
                   step_patterns, scan_i, parsed_steps, extractVars>>

\* one iteration of the loop over the jobs of an attempt
ProcessJob ==
    /\ pc = "jobs"
    /\ attempt_i <= Len(run.attempts)
    /\ job_i <= Len(run.attempts[attempt_i].jobs)
    /\ LET attempt == run.attempts[attempt_i]
           job == attempt.jobs[job_i]
       IN  all_failure_contexts' =
               IF job.conclusion # Failure THEN all_failure_contexts
               ELSE Append(all_failure_contexts,
                           CreateContext(run, attempt, job))
    /\ job_i' = job_i + 1
    /\ UNCHANGED <<pc, run_data, run, attempt_i, output_files, fc_i,
                   deserialized>>
    /\ UNCHANGED <<log_content, job_steps, job_name, log_lines, setup_end_idx,
                   step_patterns, scan_i, parsed_steps, extractVars>>

\* the jobs of the attempt are done: on to the next attempt
NextAttempt ==
    /\ pc = "jobs"
    /\ attempt_i <= Len(run.attempts)
    /\ job_i > Len(run.attempts[attempt_i].jobs)
    /\ attempt_i' = attempt_i + 1
    /\ job_i' = 1
    /\ UNCHANGED <<pc, run_data, run, all_failure_contexts, output_files,
                   fc_i, deserialized>>
    /\ UNCHANGED <<log_content, job_steps, job_name, log_lines, setup_end_idx,
                   step_patterns, scan_i, parsed_steps, extractVars>>

\* the contexts of the run are returned to main, which starts serializing
StartSerializing ==
    /\ pc = "jobs"
    /\ attempt_i > Len(run.attempts)
    /\ fc_i' = 1
    /\ pc' = "serialize"
    /\ UNCHANGED <<run_data, run, attempt_i, job_i, all_failure_contexts,
                   output_files, deserialized>>
    /\ UNCHANGED <<log_content, job_steps, job_name, log_lines, setup_end_idx,
                   step_patterns, scan_i, parsed_steps, extractVars>>

\* one iteration of the serialization loop
SerializeContext ==
    /\ pc = "serialize"
    /\ fc_i <= Len(all_failure_contexts)
    /\ LET fc == all_failure_contexts[fc_i]
       IN  output_files' =
               WriteFile(output_files, FileName(fc),
                         GHFailureContext_to_dict(fc))
    /\ fc_i' = fc_i + 1
    /\ UNCHANGED <<pc, run_data, run, attempt_i, job_i, all_failure_contexts,
                   deserialized>>
    /\ UNCHANGED <<log_content, job_steps, job_name, log_lines, setup_end_idx,
                   step_patterns, scan_i, parsed_steps, extractVars>>

\* the deserialization test with the first context, then main ends
TestDeserialization ==
    /\ pc = "serialize"
    /\ fc_i > Len(all_failure_contexts)
    /\ deserialized' =
          IF all_failure_contexts = <<>> THEN deserialized
          ELSE GHFailureContext_from_dict(
                   GHFailureContext_to_dict(all_failure_contexts[1]))
    /\ pc' = "main_done"
    /\ UNCHANGED <<run_data, run, attempt_i, job_i, all_failure_contexts,
                   output_files, fc_i>>
    /\ UNCHANGED <<log_content, job_steps, job_name, log_lines, setup_end_idx,
                   step_patterns, scan_i, parsed_steps, extractVars>>

ContextNext ==
    \/ ParseRun
    \/ ProcessJob
    \/ NextAttempt
    \/ StartSerializing
    \/ SerializeContext
    \/ TestDeserialization

SpecContexts == ContextInit /\ [][ContextNext]_vars

MainDone == pc = "main_done"

\* C23: a failure context, and the run in it with its commit and attempts,
\* is equal to its deserialized serialization.
C23_RoundTrip ==
    (MainDone /\ all_failure_contexts # <<>>) =>
        /\ deserialized.run = all_failure_contexts[1].run
        /\ deserialized = all_failure_contexts[1]

\* the (attempt, job) positions of the run whose job failed
FailedPairs ==
    UNION {{<<a, j>> : j \in {j \in 1..Len(run.attempts[a].jobs) :
                                 run.attempts[a].jobs[j].conclusion = Failure}}
           : a \in 1..Len(run.attempts)}

\* the contexts created for the job at position p
ContextsOf(p) ==
    {k \in 1..Len(all_failure_contexts) :
        /\ all_failure_contexts[k].attempt = run.attempts[p[1]]
        /\ all_failure_contexts[k].job = run.attempts[p[1]].jobs[p[2]]}

FirstFailedStep(job) ==
    IF \E k \in 1..Len(job.steps) : job.steps[k].conclusion = Failure
    THEN job.steps[CHOOSE k \in 1..Len(job.steps) :
                      /\ job.steps[k].conclusion = Failure
                      /\ \A m \in 1..(k - 1) : job.steps[m].conclusion # Failure]
    ELSE Absent

\* C25: one context for each failed (attempt, job) pair and none for any
\* other job; failed_step is the job's first failed step or None;
\* full_log_path is that step's log_file_path when set, else the job's
\* full_log_path.
C25_OneContextPerFailedJob ==
    pc \in {"serialize", "main_done"} =>
        /\ \A p \in FailedPairs : Cardinality(ContextsOf(p)) = 1
        /\ \A k \in 1..Len(all_failure_contexts) :
              \E p \in FailedPairs : k \in ContextsOf(p)
        /\ \A k \in 1..Len(all_failure_contexts) :
              LET fc == all_failure_contexts[k]
              IN  /\ fc.job.conclusion = Failure
                  /\ fc.failed_step = FirstFailedStep(fc.job)
                  /\ fc.full_log_path =
                        IF fc.failed_step # Absent
                           /\ fc.failed_step.log_file_path # None
                        THEN fc.failed_step.log_file_path
                        ELSE fc.job.full_log_path

C25_Witness ==
    /\ MainDone
    /\ Len(all_failure_contexts) = 3
    /\ \E k \in 1..3 :
          /\ all_failure_contexts[k].failed_step # Absent
          /\ all_failure_contexts[k].failed_step.number = 2
          /\ all_failure_contexts[k].full_log_path = <<"s", "2">>
    /\ \E k \in 1..3 :
          /\ all_failure_contexts[k].failed_step = Absent
          /\ all_failure_contexts[k].full_log_path = <<"j", "4">>
    /\ \E a \in 1..Len(run.attempts) :
          \E j \in 1..Len(run.attempts[a].jobs) :
              run.attempts[a].jobs[j].conclusion = Success

\* C26: the contexts of one generation have pairwise distinct
\* run_identifier values, and as many files are written as contexts were
\* created.
C26_OneFilePerContext ==
    /\ pc \in {"serialize", "main_done"} =>
          \A k \in 1..Len(all_failure_contexts) :
              \A m \in 1..Len(all_failure_contexts) :
                  k # m => RunIdentifier(all_failure_contexts[k])
                             # RunIdentifier(all_failure_contexts[m])
    /\ MainDone =>
          Cardinality(DOMAIN output_files) = Len(all_failure_contexts)

----------------------------------------------------------------------------
(* extract_runs_from_single_workflow: the two caches of one pass.  The     *)
(* pages of the run listing are one list; the part of the loop body that    *)
(* downloads jobs and logs reads workflow_yaml and leaves the caches alone. *)

MaxRuns == 3

InProgress == <<"i", "n", "_", "p", "r", "o", "g", "r", "e", "s", "s">>

PathW1 == <<"w", "1">>

PathW2 == <<"w", "2">>

\* get_workflow_details: the workflow's description, {} when the request
\* fails
WorkflowDetails(id) ==
    IF id = 1 THEN [path |-> PathW1]
    ELSE IF id = 2 THEN [path |-> PathW2]
    ELSE EmptyDict

\* get_workflow_content at a commit: the file's text, '' when the request
\* fails.  The file w1 changes between the commits s1 and s2, cannot be
\* read at s3 and is not valid YAML at s4.
RemoteContent(path, sha) ==
    IF path = PathW2 THEN <<"r", "e", "v", "1">>
    ELSE IF sha = <<"s", "1">> THEN <<"r", "e", "v", "1">>
    ELSE IF sha = <<"s", "2">> THEN <<"r", "e", "v", "2">>
    ELSE IF sha = <<"s", "3">> THEN <<>>
    ELSE <<"b", "a", "d">>

\* parse_workflow_yaml: the parsed definition, {} on a YAML error
ParseWorkflowYaml(content) ==
    IF content = <<"r", "e", "v", "1">>
    THEN [jobs |-> <<<<JobB, [steps |-> <<[run |-> <<"a">>]>>]>>>>]
    ELSE IF content = <<"r", "e", "v", "2">>
    THEN [jobs |-> <<<<JobB, [steps |-> <<[run |-> <<"a">>],
                                          [run |-> <<"z">>]>>]>>>>]
    ELSE EmptyDict

\* variant: the content is requested for every run
NeedsFetch_EveryRun(path, cache) == path # <<>>

\* workflow_path and workflow_path not in workflow_yaml_cache
NeedsFetch(path, cache) == path # <<>> /\ path \notin DOMAIN cache

\* cache[key] = value
Store(cache, key, value) ==
    [k \in DOMAIN cache \cup {key} |-> IF k = key THEN value ELSE cache[k]]

RunEntry(wid, sha, st) ==
    [id |-> 1, workflow_id |-> wid, head_sha |-> sha, status |-> st]

RunPalette ==
    {RunEntry(1, <<"s", "1">>, Completed), RunEntry(1, <<"s", "2">>, Completed),
     RunEntry(1, <<"s", "3">>, Completed), RunEntry(1, <<"s", "4">>, Completed),
     RunEntry(2, <<"s", "1">>, Completed), RunEntry(3, <<"s", "1">>, Completed),
     RunEntry(1, <<"s", "2">>, InProgress)}

ExtractInit ==
    /\ pc = "extract"
    /\ runs \in SeqsUpTo(RunPalette, MaxRuns)
    /\ run_i = 1
    /\ workflow_cache = <<>>
    /\ workflow_yaml_cache = <<>>
    /\ fetches = <<>>
    /\ workflow_yaml = <<>>
    /\ NoParse
    /\ NoContexts

\* a run in progress is passed over
SkipRun ==
    /\ pc = "extract"
    /\ run_i <= Len(runs)
    /\ runs[run_i].status = InProgress
    /\ run_i' = run_i + 1
    /\ UNCHANGED <<pc, runs, workflow_cache, workflow_yaml_cache, fetches,
                   workflow_yaml>>
    /\ UNCHANGED <<log_content, job_steps, job_name, log_lines, setup_end_idx,
                   step_patterns, scan_i, parsed_steps, contextVars>>

\* one iteration of the loop over the runs
ProcessRun ==
    /\ pc = "extract"
    /\ run_i <= Len(runs)
    /\ runs[run_i].status # InProgress
    /\ LET r == runs[run_i]
           key == r.workflow_id
           details == IF key \in DOMAIN workflow_cache
                      THEN workflow_cache[key] ELSE WorkflowDetails(key)
           path == Get(details, "path", <<>>)
           fetch == NeedsFetch(path, workflow_yaml_cache)
           content == RemoteContent(path, r.head_sha)
           cache == IF fetch /\ content # <<>>
                    THEN Store(workflow_yaml_cache, path,
                               ParseWorkflowYaml(content))
                    ELSE workflow_yaml_cache
       IN  /\ workflow_cache' = Store(workflow_cache, key, details)
           /\ fetches' = IF fetch THEN Append(fetches, <<path, r.head_sha>>)
                         ELSE fetches
           /\ workflow_yaml_cache' = cache
           /\ workflow_yaml' = IF path \in DOMAIN cache THEN cache[path]
                               ELSE EmptyDict
    /\ run_i' = run_i + 1
    /\ UNCHANGED <<pc, runs>>
    /\ UNCHANGED <<log_content, job_steps, job_name, log_lines, setup_end_idx,
                   step_patterns, scan_i, parsed_steps, contextVars>>

\* the listing is exhausted: the pass returns
FinishPass ==
    /\ pc = "extract"
    /\ run_i > Len(runs)
    /\ pc' = "extract_done"
    /\ UNCHANGED <<runs, run_i, workflow_cache, workflow_yaml_cache, fetches,
                   workflow_yaml>>
    /\ UNCHANGED <<log_content, job_steps, job_name, log_lines, setup_end_idx,
                   step_patterns, scan_i, parsed_steps, contextVars>>

ExtractNext ==
    \/ SkipRun
    \/ ProcessRun
    \/ FinishPass

SpecExtract == ExtractInit /\ [][ExtractNext]_vars

\* C24: within a pass an entry of the workflow-definition cache is never
\* replaced or removed, and no content is requested for a path that has an
\* entry.
C24_CacheAppendOnly ==
    [][/\ \A p \in DOMAIN workflow_yaml_cache :
              /\ p \in DOMAIN workflow_yaml_cache'
              /\ workflow_yaml_cache'[p] = workflow_yaml_cache[p]
       /\ fetches' # fetches =>
              /\ Len(fetches') = Len(fetches) + 1
              /\ SubSeq(fetches', 1, Len(fetches)) = fetches
              /\ fetches'[Len(fetches')][1] \notin DOMAIN workflow_yaml_cache
      ]_vars

C24_Witness ==
    /\ pc = "extract_done"
    /\ Len(runs) = 3
    /\ \A k \in 1..3 : runs[k].workflow_id = 1 /\ runs[k].status = Completed
    /\ runs[1].head_sha = <<"s", "3">>
    /\ runs[2].head_sha = <<"s", "1">>
    /\ runs[3].head_sha = <<"s", "2">>
    /\ Len(fetches) = 2
    /\ DOMAIN workflow_yaml_cache = {PathW1}

\* C30: the definition used for a run is the definition of the workflow file
\* at that run's own head_sha.
C30_DefinitionAtOwnCommit ==
    [][(/\ pc = "extract"
        /\ run_i <= Len(runs)
        /\ run_i' = run_i + 1
        /\ runs[run_i].status # InProgress
        /\ Has(WorkflowDetails(runs[run_i].workflow_id), "path")
        /\ RemoteContent(WorkflowDetails(runs[run_i].workflow_id).path,
                         runs[run_i].head_sha) # <<>>)
       => workflow_yaml' =
             ParseWorkflowYaml(
                 RemoteContent(WorkflowDetails(runs[run_i].workflow_id).path,
                               runs[run_i].head_sha))
      ]_vars

====
